---- MODULE Spec2Model ----
(***************************************************************************)
(* Model of UserService (examples/before-after/testing-examples/           *)
(* tdd-user-service-good.py): registration, login, e-mail verification    *)
(* and password change over an injected repository, e-mail service,       *)
(* token generator and password hasher.                                   *)
(*                                                                         *)
(* A Python str is a sequence of characters; a character is a one-letter  *)
(* TLA+ string, the newline character being written "NL".                 *)
(***************************************************************************)
EXTENDS Integers, Sequences, FiniteSets, TLC

\* ---------------------------------------------------------------- bounds
MaxUsers == 2
MaxNow == 24
TickHours == 12
Callers == 2
MaxClock == 120
ClockStep == 30
MaxIds == 2

\* ------------------------------------------------------ program constants
max_failed_attempts == 5
lockout_duration_hours == 24
min_password_length == 8
failure_threshold == 5
recovery_timeout == 60
max_retries == 3

\* ------------------------------------------------------------- characters
UpperLower ==
    { <<"A", "a">>, <<"B", "b">>, <<"C", "c">>, <<"D", "d">>, <<"J", "j">>,
      <<"O", "o">>, <<"P", "p">>, <<"R", "r">>, <<"S", "s">>, <<"W", "w">> }

UpperChars == { p[1] : p \in UpperLower }

LowerChars == { p[2] : p \in UpperLower }

DigitChars == { "0", "1" }

WhitespaceChars == { " ", "NL" }

\* str.lower() on one character
LowerChar(c) ==
    IF c \in UpperChars THEN (CHOOSE p \in UpperLower : p[1] = c)[2] ELSE c

\* str.lower()
Lower(s) == [i \in 1..Len(s) |-> LowerChar(s[i])]

RECURSIVE LStrip(_)
LStrip(s) ==
    IF s # <<>> /\ Head(s) \in WhitespaceChars THEN LStrip(Tail(s)) ELSE s

RECURSIVE RStrip(_)
RStrip(s) ==
    IF s # <<>> /\ s[Len(s)] \in WhitespaceChars
    THEN RStrip(SubSeq(s, 1, Len(s) - 1))
    ELSE s

\* str.strip()
Strip(s) == RStrip(LStrip(s))

\* email.lower().strip()
NormalizeEmail(email) == Strip(Lower(email))

AllIn(s, chars) == \A i \in 1..Len(s) : s[i] \in chars

\* re.search(r'[...]', s)
Search(s, chars) == \E i \in 1..Len(s) : s[i] \in chars

\* ------------------------------------------------------------- validation
EmailLocalChars == UpperChars \cup LowerChars \cup DigitChars \cup { ".", "_", "%", "+", "-" }

EmailDomainChars == UpperChars \cup LowerChars \cup DigitChars \cup { ".", "-" }

\* ^[a-zA-Z0-9._%+-]+@[a-zA-Z0-9.-]+\.[a-zA-Z]{2,} matched against all of s
FullMatchEmail(s) ==
    \E i \in 1..Len(s) : \E j \in (i + 1)..Len(s) :
        /\ s[i] = "@"
        /\ s[j] = "."
        /\ i > 1
        /\ AllIn(SubSeq(s, 1, i - 1), EmailLocalChars)
        /\ j > i + 1
        /\ AllIn(SubSeq(s, i + 1, j - 1), EmailDomainChars)
        /\ Len(s) - j >= 2
        /\ AllIn(SubSeq(s, j + 1, Len(s)), UpperChars \cup LowerChars)

\* re.match with a pattern ending in $: $ also matches just before a final
\* newline.
_is_valid_email(email) ==
    \/ FullMatchEmail(email)
    \/ /\ email # <<>>
       /\ email[Len(email)] = "NL"
       /\ FullMatchEmail(SubSeq(email, 1, Len(email) - 1))

NoError == "None"
MsgEmailRequired == "Email is required"
MsgInvalidEmail == "Invalid email format"
MsgPasswordRequired == "Password is required"
MsgPasswordLength == "Password must be at least 8 characters long"
MsgPasswordUpper == "Password must contain at least one uppercase letter"
MsgPasswordLower == "Password must contain at least one lowercase letter"
MsgPasswordDigit == "Password must contain at least one number"
MsgFirstNameRequired == "First name is required"
MsgLastNameRequired == "Last name is required"
MsgAlreadyExists == "User already exists with this email"
MsgEmailFailed == "User created but verification email failed"
MsgRegistered == "User registered successfully. Please check your email for verification."

\* _validate_password without the length rule.
_validate_password_any_length(password) ==
    IF password = <<>> THEN MsgPasswordRequired
    ELSE IF ~Search(password, UpperChars) THEN MsgPasswordUpper
    ELSE IF ~Search(password, LowerChars) THEN MsgPasswordLower
    ELSE IF ~Search(password, DigitChars) THEN MsgPasswordDigit
    ELSE NoError

\* _validate_password without the digit rule.
_validate_password_no_digit_rule(password) ==
    IF password = <<>> THEN MsgPasswordRequired
    ELSE IF Len(password) < min_password_length THEN MsgPasswordLength
    ELSE IF ~Search(password, UpperChars) THEN MsgPasswordUpper
    ELSE IF ~Search(password, LowerChars) THEN MsgPasswordLower
    ELSE NoError

_validate_password(password) ==
    IF password = <<>> THEN MsgPasswordRequired
    ELSE IF Len(password) < min_password_length THEN MsgPasswordLength
    ELSE IF ~Search(password, UpperChars) THEN MsgPasswordUpper
    ELSE IF ~Search(password, LowerChars) THEN MsgPasswordLower
    ELSE IF ~Search(password, DigitChars) THEN MsgPasswordDigit
    ELSE NoError

\* _validate_registration_input checking the names before the password.
_validate_registration_input_names_first(email, password, first_name, last_name) ==
    IF email = <<>> \/ Strip(email) = <<>> THEN MsgEmailRequired
    ELSE IF ~_is_valid_email(email) THEN MsgInvalidEmail
    ELSE IF first_name = <<>> \/ Strip(first_name) = <<>> THEN MsgFirstNameRequired
    ELSE IF last_name = <<>> \/ Strip(last_name) = <<>> THEN MsgLastNameRequired
    ELSE IF _validate_password(password) # NoError THEN _validate_password(password)
    ELSE NoError

_validate_registration_input(email, password, first_name, last_name) ==
    IF email = <<>> \/ Strip(email) = <<>> THEN MsgEmailRequired
    ELSE IF ~_is_valid_email(email) THEN MsgInvalidEmail
    ELSE IF _validate_password(password) # NoError THEN _validate_password(password)
    ELSE IF first_name = <<>> \/ Strip(first_name) = <<>> THEN MsgFirstNameRequired
    ELSE IF last_name = <<>> \/ Strip(last_name) = <<>> THEN MsgLastNameRequired
    ELSE NoError

\* ----------------------------------------------------------- collaborators
\* PasswordHasher: the digest is not the password; verify_password accepts
\* exactly the password the digest was made from.
hash_password(password) == [digest |-> password]

verify_password(password, hashed) == hashed = hash_password(password)

\* The value None of an Optional[str], of an Optional[datetime], of a user id
\* and of an Optional[User].
None == "None"

NoDate == -1

NoId == 0

NoUser == [ id |-> NoId ]

\* UserRepository.find_by_email: positions of the stored accounts with that
\* exact e-mail; the repository hands out the oldest one.
MatchesByEmail(users, email) == { i \in 1..Len(users) : users[i].email = email }

find_by_email(users, email) ==
    IF MatchesByEmail(users, email) = {} THEN 0
    ELSE CHOOSE i \in MatchesByEmail(users, email) :
            \A k \in MatchesByEmail(users, email) : i <= k

\* UserRepository.find_by_id: ids are the positions 1..Len(users); 0 when absent
find_by_id(users, user_id) == IF user_id \in 1..Len(users) THEN user_id ELSE 0

\* ------------------------------------------------------------------ inputs
EmailA == <<"a", "@", "b", ".", "c", "o">>
EmailAUpper == <<"A", "@", "b", ".", "c", "o">>
EmailANewline == <<"a", "@", "b", ".", "c", "o", "NL">>
EmailC == <<"c", "@", "b", ".", "c", "o">>
EmailNoAt == <<"a", "b", ".", "c", "o">>
EmailLeadingSpace == <<" ", "a", "@", "b", ".", "c", "o">>
EmailBlank == <<" ">>
EmailEmpty == <<>>

PwGood == <<"P", "a", "s", "s", "w", "0", "r", "d">>
PwGood2 == <<"P", "a", "s", "s", "w", "0", "r", "d", "1">>
PwShort == <<"A", "b", "1">>
PwNoUpper == <<"p", "a", "s", "s", "w", "0", "r", "d">>
PwNoLower == <<"P", "A", "S", "S", "W", "0", "R", "D">>
PwNoDigit == <<"P", "a", "s", "s", "w", "o", "r", "d">>
PwShortLower == <<"a", "b">>
PwLowerOnly == <<"p", "a", "s", "s", "w", "o", "r", "d">>
PwEmpty == <<>>

NameJo == <<" ", "J", "o">>
NameBlank == <<" ">>
NameEmpty == <<>>

EmailCUpper == <<"C", "@", "b", ".", "c", "o">>

PwNoLowerNoDigit == <<"P", "A", "S", "S", "W", "O", "R", "D">>

\* Well-formed registrations: every e-mail here passes _is_valid_email.
ValidRegistrations ==
    { <<e, p, NameJo, NameJo>> :
        e \in { EmailA, EmailAUpper, EmailANewline, EmailC }, p \in { PwGood, PwGood2 } }

\* Registrations that break one rule, or several rules at once.
InvalidRegistrations ==
    { <<e, x[1], x[2], NameJo>> :
        e \in { EmailNoAt, EmailLeadingSpace, EmailBlank, EmailEmpty },
        x \in { <<PwGood, NameJo>>, <<PwShortLower, NameBlank>> } }
    \cup
    { <<EmailA, p, n[1], n[2]>> :
        p \in { PwShort, PwNoUpper, PwNoLower, PwNoDigit, PwShortLower,
                PwLowerOnly, PwNoLowerNoDigit, PwEmpty },
        n \in { <<NameJo, NameJo>>, <<NameEmpty, NameBlank>> } }
    \cup
    { <<EmailA, PwGood, n[1], n[2]>> :
        n \in { <<NameEmpty, NameJo>>, <<NameBlank, NameJo>>, <<NameJo, NameEmpty>>,
                <<NameJo, NameBlank>>, <<NameEmpty, NameEmpty>> } }

Registrations == ValidRegistrations \cup InvalidRegistrations

\* The registrations made while the other operations are exercised.
ServiceRegistrations ==
    { <<e, PwGood, NameJo, NameJo>> : e \in { EmailA, EmailAUpper, EmailC } }
    \cup
    { <<EmailNoAt, PwGood, NameJo, NameJo>>, <<EmailA, PwShort, NameJo, NameJo>>,
      <<EmailA, PwGood, NameBlank, NameJo>> }

LoginEmails == { EmailA, EmailC, EmailCUpper, EmailEmpty }

LoginPasswords == { PwGood, PwGood2, PwEmpty }

\* change_password calls: known ids with right and wrong old passwords and
\* valid and invalid new ones, an unknown id, and each field missing.
PasswordChanges ==
    { <<i, o, n>> : i \in 1..MaxUsers, o \in { PwGood, PwGood2 },
                    n \in { PwGood, PwGood2, PwShort } }
    \cup
    { <<MaxUsers + 1, PwGood, PwGood2>>, <<NoId, PwGood, PwGood2>>,
      <<1, PwEmpty, PwGood2>>, <<1, PwGood, PwEmpty>> }

Tokens == { "t1", "t2" }

VerificationTokens == Tokens \cup { "" }

\* ------------------------------------------------------------------- state
VARIABLES
    users,      \* UserRepository: the stored User records, id = position
    now,        \* datetime.now(), in hours
    call,       \* the most recent call: operation and arguments
    result,     \* what that call returned or raised
    effects,    \* what that call asked of its collaborators
    procs,      \* register_user calls in progress, one per concurrent caller
    breaker,    \* CircuitBreaker: state, failure_count, last_failure_time
    clock,      \* time.time(), in seconds
    outcome,    \* what the most recent CircuitBreaker.call did
    processing, \* DataProcessor.process_user_data: the call in progress or ended
    notification \* NotificationService: what the most recent call did

vars == <<users, now, call, result, effects, procs, breaker, clock, outcome,
         processing, notification>>

\* What UserService does not touch when its calls run one after the other.
outside_service == <<procs, breaker, clock, outcome, processing, notification>>

\* A User that is born verified.
User_born_verified(id, email, first_name, last_name, created_at) ==
    [ id |-> id, email |-> email, first_name |-> first_name,
      last_name |-> last_name, created_at |-> created_at,
      email_verified |-> TRUE, failed_login_attempts |-> 0,
      locked_until |-> NoDate ]

User(id, email, first_name, last_name, created_at) ==
    [ id |-> id, email |-> email, first_name |-> first_name,
      last_name |-> last_name, created_at |-> created_at,
      email_verified |-> FALSE, failed_login_attempts |-> 0,
      locked_until |-> NoDate ]

\* user.password_hash = hashed: the attribute is added to the object.
WithPasswordHash(user, hashed) ==
    [ f \in DOMAIN user \cup { "password_hash" } |->
        IF f = "password_hash" THEN hashed ELSE user[f] ]

\* saved/updated: calls of save_user/update_user; hashed: hash_password was
\* called; token: the token generated; emailed: the addresses a
\* verification e-mail was sent to; email_sent: what send_verification_email
\* answered the last time it was called; queried: the e-mails find_by_email
\* was asked for; before: the repository before the call.
NoEffects ==
    [ saved |-> 0, updated |-> 0, hashed |-> FALSE, token |-> None,
      emailed |-> <<>>, email_sent |-> FALSE, queried |-> <<>>, before |-> users ]

RegistrationResult(success, user_id, message, verification_token) ==
    [ success |-> success, user_id |-> user_id, message |-> message,
      verification_token |-> verification_token, raised |-> FALSE ]

LoginResult(success, user, message) ==
    [ success |-> success, user |-> user, message |-> message, raised |-> FALSE ]

VerificationResult(success, message) ==
    [ success |-> success, message |-> message, raised |-> FALSE ]

\* change_password returns True or raises ValueError(message)
Returned(value) == [ success |-> value, message |-> None, raised |-> FALSE ]

ValueError(message) == [ success |-> FALSE, message |-> message, raised |-> TRUE ]

MsgLoginRequired == "Email and password are required"
MsgInvalidCredentials == "Invalid credentials"
MsgLocked == "Account is temporarily locked due to too many failed attempts"
MsgUnverified == "Please verify your email before logging in"
MsgLoginOk == "Login successful"
MsgTokenRequired == "Verification token is required"
MsgTokenInvalid == "Invalid or expired verification token"
MsgAlreadyVerified == "Email is already verified"
MsgVerified == "Email verified successfully"
MsgAllRequired == "All fields are required"
MsgUserNotFound == "User not found"
MsgOldPasswordWrong == "Current password is incorrect"

\* An account that was in the repository before the service was built:
\* verified, never failed, not locked.
ExistingUser ==
    WithPasswordHash(
        [ User(1, EmailC, <<"J", "o">>, <<"J", "o">>, 0) EXCEPT !.email_verified = TRUE ],
        hash_password(PwGood))

\* No register_user call is in progress.
NoProcs == <<>>

\* CircuitBreaker.__init__
NewBreaker == [ state |-> "CLOSED", failure_count |-> 0, last_failure_time |-> NoDate ]

NoOutcome == [ op |-> "init" ]

\* process_user_data has not been called.
NoProcessing == [ pc |-> "idle" ]

\* No notification has been asked for.
NoNotification == [ op |-> "init" ]

\* Nothing but UserService is in use.
OutsideServiceIdle ==
    /\ procs = NoProcs
    /\ breaker = NewBreaker
    /\ clock = 0
    /\ outcome = NoOutcome
    /\ processing = NoProcessing
    /\ notification = NoNotification

\* No UserService call has been made yet.
ServiceFresh ==
    /\ now = 0
    /\ call = [ op |-> "init" ]
    /\ result = Returned(TRUE)
    /\ effects = NoEffects

Init ==
    /\ users \in { <<>>, <<ExistingUser>> }
    /\ ServiceFresh
    /\ OutsideServiceIdle

\* ----------------------------------------------------------------- helpers
\* A lock that is never seen.
_is_account_locked_never(user) == FALSE

\* A lock that counts for verified accounts only.
_is_account_locked_verified_only(user) ==
    user.email_verified /\ user.locked_until # NoDate /\ now < user.locked_until

_is_account_locked(user) ==
    IF user.locked_until = NoDate THEN FALSE ELSE now < user.locked_until

\* _handle_failed_login locking one attempt late.
_handle_failed_login_late(user) ==
    LET counted == [ user EXCEPT !.failed_login_attempts = @ + 1 ]
    IN IF counted.failed_login_attempts > max_failed_attempts
       THEN [ counted EXCEPT !.locked_until = now + lockout_duration_hours ]
       ELSE counted

\* _handle_failed_login locking at the fifth failure and at no later one.
_handle_failed_login_fifth_only(user) ==
    LET counted == [ user EXCEPT !.failed_login_attempts = @ + 1 ]
    IN IF counted.failed_login_attempts = max_failed_attempts
       THEN [ counted EXCEPT !.locked_until = now + lockout_duration_hours ]
       ELSE counted

\* _handle_failed_login locking until now, without the lockout duration.
_handle_failed_login_no_duration(user) ==
    LET counted == [ user EXCEPT !.failed_login_attempts = @ + 1 ]
    IN IF counted.failed_login_attempts >= max_failed_attempts
       THEN [ counted EXCEPT !.locked_until = now ]
       ELSE counted

\* The user after _handle_failed_login, which also writes it to the repository.
_handle_failed_login(user) ==
    LET counted == [ user EXCEPT !.failed_login_attempts = @ + 1 ]
    IN IF counted.failed_login_attempts >= max_failed_attempts
       THEN [ counted EXCEPT !.locked_until = now + lockout_duration_hours ]
       ELSE counted

\* A reset that lifts the lockout and keeps the count.
reset_failed_attempts_keeps_count(user) == [ user EXCEPT !.locked_until = NoDate ]

\* A reset that forgets the lockout.
reset_failed_attempts_keeps_lock(user) == [ user EXCEPT !.failed_login_attempts = 0 ]

\* The user after the reset of a successful login.
reset_failed_attempts(user) ==
    [ user EXCEPT !.failed_login_attempts = 0, !.locked_until = NoDate ]

\* A password change that also lifts the lockout.
set_password_hash_and_unlock(user, new_password) ==
    [ user EXCEPT !.password_hash = hash_password(new_password),
                  !.failed_login_attempts = 0, !.locked_until = NoDate ]

\* A password change that stores nothing new.
set_password_hash_unchanged(user, new_password) == user

\* The user after user.password_hash = hash_password(new_password).
set_password_hash(user, new_password) ==
    [ user EXCEPT !.password_hash = hash_password(new_password) ]

\* A lookup that matches every token to the oldest account.
_find_user_by_verification_token_first(token) == IF Len(users) > 0 THEN 1 ELSE 0

\* Simplified in the source: no token is ever matched to a user.
_find_user_by_verification_token(token) == 0

\* A registration reported as successful whatever the e-mail service answered.
registration_outcome_ignores_email(email_sent, user_id, verification_token) ==
    RegistrationResult(TRUE, user_id, MsgRegistered, verification_token)

\* What register_user returns once the user is saved and the e-mail requested.
registration_outcome(email_sent, user_id, verification_token) ==
    IF ~email_sent
    THEN RegistrationResult(FALSE, NoId, MsgEmailFailed, None)
    ELSE RegistrationResult(TRUE, user_id, MsgRegistered, verification_token)

\* An existence check that never finds anyone.
existing_user_unchecked(email) == 0

\* existing_user = self.user_repository.find_by_email(email)
existing_user(email) == find_by_email(users, email)

\* A repository that checks and inserts atomically: an e-mail is stored once.
save_user_unique(store, user) ==
    IF \E i \in 1..Len(store) : store[i].email = user.email
    THEN store
    ELSE Append(store, user)

\* user_repository.save_user(user): the repository as the service is given
\* it, which stores what it is handed.
save_user(store, user) == Append(store, user)

\* A login that tells the caller that the account does not exist.
no_such_user_result_disclosing == LoginResult(FALSE, NoUser, MsgUserNotFound)

\* A login that raises for an unknown account.
no_such_user_result_raising == ValueError(MsgUserNotFound)

\* What login_user returns when find_by_email finds nobody.
no_such_user_result == LoginResult(FALSE, NoUser, MsgInvalidCredentials)

\* -------------------------------------------------------------- operations
register_user(email, password, first_name, last_name) ==
    LET validation_error == _validate_registration_input(email, password, first_name, last_name)
        user_id == Len(users) + 1
        user == WithPasswordHash(
                    User(user_id, NormalizeEmail(email), Strip(first_name), Strip(last_name), now),
                    hash_password(password))
    IN
    /\ call' = [ op |-> "register_user", email |-> email, password |-> password,
                 first_name |-> first_name, last_name |-> last_name ]
    /\ now' = now
    /\ UNCHANGED outside_service
    /\ IF validation_error # NoError
       THEN /\ result' = RegistrationResult(FALSE, NoId, validation_error, None)
            /\ effects' = NoEffects
            /\ users' = users
       ELSE IF existing_user(email) # 0
       THEN /\ result' = RegistrationResult(FALSE, NoId, MsgAlreadyExists, None)
            /\ effects' = [ NoEffects EXCEPT !.queried = <<email>> ]
            /\ users' = users
       ELSE /\ Len(users) < MaxUsers
            /\ users' = save_user(users, user)
            /\ \E verification_token \in Tokens, email_sent \in BOOLEAN :
                /\ effects' = [ NoEffects EXCEPT !.queried = <<email>>,
                                  !.saved = 1, !.hashed = TRUE,
                                  !.token = verification_token, !.emailed = <<email>>,
                                  !.email_sent = email_sent ]
                /\ result' = registration_outcome(email_sent, user_id, verification_token)

login_user(email, password) ==
    LET found == find_by_email(users, NormalizeEmail(email))
        user == users[found]
        failed == _handle_failed_login(user)
        reset == reset_failed_attempts(user)
        queried == [ NoEffects EXCEPT !.queried = <<NormalizeEmail(email)>> ]
    IN
    /\ call' = [ op |-> "login_user", email |-> email, password |-> password ]
    /\ now' = now
    /\ UNCHANGED outside_service
    /\ IF email = <<>> \/ password = <<>>
       THEN /\ result' = LoginResult(FALSE, NoUser, MsgLoginRequired)
            /\ effects' = NoEffects
            /\ users' = users
       ELSE IF found = 0
       THEN /\ result' = no_such_user_result
            /\ effects' = queried
            /\ users' = users
       ELSE IF _is_account_locked(user)
       THEN /\ result' = LoginResult(FALSE, NoUser, MsgLocked)
            /\ effects' = queried
            /\ users' = users
       ELSE IF ~user.email_verified
       THEN /\ result' = LoginResult(FALSE, NoUser, MsgUnverified)
            /\ effects' = queried
            /\ users' = users
       ELSE IF ~verify_password(password, user.password_hash)
       THEN /\ users' = [ users EXCEPT ![found] = failed ]
            /\ effects' = [ queried EXCEPT !.updated = 1 ]
            /\ result' = LoginResult(FALSE, NoUser, MsgInvalidCredentials)
       ELSE IF user.failed_login_attempts > 0
       THEN /\ users' = [ users EXCEPT ![found] = reset ]
            /\ effects' = [ queried EXCEPT !.updated = 1 ]
            /\ result' = LoginResult(TRUE, reset, MsgLoginOk)
       ELSE /\ users' = users
            /\ effects' = queried
            /\ result' = LoginResult(TRUE, user, MsgLoginOk)

verify_email(token) ==
    LET found == _find_user_by_verification_token(token)
        user == users[found]
    IN
    /\ call' = [ op |-> "verify_email", token |-> token ]
    /\ now' = now
    /\ UNCHANGED outside_service
    /\ IF token = ""
       THEN /\ result' = VerificationResult(FALSE, MsgTokenRequired)
            /\ effects' = NoEffects
            /\ users' = users
       ELSE IF found = 0
       THEN /\ result' = VerificationResult(FALSE, MsgTokenInvalid)
            /\ effects' = NoEffects
            /\ users' = users
       ELSE IF user.email_verified
       THEN /\ result' = VerificationResult(TRUE, MsgAlreadyVerified)
            /\ effects' = NoEffects
            /\ users' = users
       ELSE /\ users' = [ users EXCEPT ![found].email_verified = TRUE ]
            /\ effects' = [ NoEffects EXCEPT !.updated = 1 ]
            /\ result' = VerificationResult(TRUE, MsgVerified)

change_password(user_id, old_password, new_password) ==
    LET found == find_by_id(users, user_id)
        user == users[found]
        password_error == _validate_password(new_password)
    IN
    /\ call' = [ op |-> "change_password", user_id |-> user_id,
                 old_password |-> old_password, new_password |-> new_password ]
    /\ now' = now
    /\ UNCHANGED outside_service
    /\ IF user_id = NoId \/ old_password = <<>> \/ new_password = <<>>
       THEN /\ result' = ValueError(MsgAllRequired)
            /\ effects' = NoEffects
            /\ users' = users
       ELSE IF found = 0
       THEN /\ result' = ValueError(MsgUserNotFound)
            /\ effects' = NoEffects
            /\ users' = users
       ELSE IF ~verify_password(old_password, user.password_hash)
       THEN /\ result' = ValueError(MsgOldPasswordWrong)
            /\ effects' = NoEffects
            /\ users' = users
       ELSE IF password_error # NoError
       THEN /\ result' = ValueError(password_error)
            /\ effects' = NoEffects
            /\ users' = users
       ELSE /\ users' = [ users EXCEPT ![found] = set_password_hash(user, new_password) ]
            /\ effects' = [ NoEffects EXCEPT !.updated = 1, !.hashed = TRUE ]
            /\ result' = Returned(TRUE)

\* Time passes between calls; no call is the most recent step any more.
Tick ==
    /\ now + TickHours <= MaxNow
    /\ now' = now + TickHours
    /\ users' = users
    /\ call' = [ op |-> "tick" ]
    /\ result' = Returned(TRUE)
    /\ effects' = NoEffects
    /\ UNCHANGED outside_service

Next ==
    \/ \E r \in ServiceRegistrations : register_user(r[1], r[2], r[3], r[4])
    \/ \E email \in LoginEmails, password \in LoginPasswords : login_user(email, password)
    \/ \E token \in VerificationTokens : verify_email(token)
    \/ \E c \in PasswordChanges : change_password(c[1], c[2], c[3])
    \/ Tick

Spec == Init /\ [][Next]_vars

\* Registration alone, over the whole range of well-formed and ill-formed input.
NextRegistration == \E r \in Registrations : register_user(r[1], r[2], r[3], r[4])

SpecRegistration == Init /\ [][NextRegistration]_vars

\* The repository is handed to the service: find_by_email may return a User in
\* any condition, as the login tests arrange it (verified or not, with any
\* number of failed attempts, with or without a lockout, past or future).
StoredUsers ==
    { [ ExistingUser EXCEPT !.email_verified = v, !.failed_login_attempts = f,
                            !.locked_until = l ] :
        v \in BOOLEAN, f \in 0..(max_failed_attempts + 1),
        l \in { NoDate, TickHours, MaxNow } }

InitLogin ==
    /\ users \in { <<u>> : u \in StoredUsers }
    /\ ServiceFresh
    /\ OutsideServiceIdle

NextLogin ==
    \/ \E email \in LoginEmails, password \in LoginPasswords : login_user(email, password)
    \/ Tick

\* Logins, and the passing of time, against a repository in any condition.
SpecLogin == InitLogin /\ [][NextLogin]_vars

\* --------------------------------------------- register_user, interleaved
\* A caller that has not called yet.
IdleCaller ==
    [ pc |-> "idle", email |-> <<>>, password |-> <<>>, first_name |-> <<>>,
      last_name |-> <<>>, checked_len |-> 0, user_id |-> NoId,
      email_sent |-> FALSE, result |-> RegistrationResult(FALSE, NoId, None, None) ]

\* The registrations the concurrent callers make.
ConcurrentRegistrations ==
    { <<e, PwGood, NameJo, NameJo>> : e \in { EmailA, EmailAUpper, EmailNoAt } }

\* Caller p calls register_user.
begin_register(p, email, password, first_name, last_name) ==
    /\ procs[p].pc = "idle"
    /\ procs' = [ procs EXCEPT ![p] =
                    [ @ EXCEPT !.pc = "called", !.email = email, !.password = password,
                               !.first_name = first_name, !.last_name = last_name ] ]
    /\ UNCHANGED <<users, now, call, result, effects, breaker, clock, outcome,
                 processing, notification>>

\* Caller p validates its input and asks the repository for the e-mail;
\* checked_len is the number of accounts stored at that moment.
check_existing(p) ==
    LET c == procs[p]
        validation_error == _validate_registration_input(c.email, c.password,
                                                         c.first_name, c.last_name)
    IN
    /\ c.pc = "called"
    /\ procs' = [ procs EXCEPT ![p] =
         IF validation_error # NoError
         THEN [ c EXCEPT !.pc = "done",
                         !.result = RegistrationResult(FALSE, NoId, validation_error, None) ]
         ELSE IF existing_user(c.email) # 0
         THEN [ c EXCEPT !.pc = "done", !.checked_len = Len(users),
                         !.result = RegistrationResult(FALSE, NoId, MsgAlreadyExists, None) ]
         ELSE [ c EXCEPT !.pc = "checked", !.checked_len = Len(users) ] ]
    /\ UNCHANGED <<users, now, call, result, effects, breaker, clock, outcome,
                 processing, notification>>

\* Caller p builds the User, hashes the password and saves the user.
save_new_user(p) ==
    LET c == procs[p]
        user_id == Len(users) + 1
        user == WithPasswordHash(
                    User(user_id, NormalizeEmail(c.email), Strip(c.first_name),
                         Strip(c.last_name), now),
                    hash_password(c.password))
    IN
    /\ c.pc = "checked"
    /\ users' = save_user(users, user)
    /\ procs' = [ procs EXCEPT ![p] = [ c EXCEPT !.pc = "saved", !.user_id = user_id ] ]
    /\ UNCHANGED <<now, call, result, effects, breaker, clock, outcome,
                 processing, notification>>

\* Caller p generates the token, asks for the verification e-mail and returns.
send_verification(p) ==
    LET c == procs[p]
    IN
    /\ c.pc = "saved"
    /\ \E verification_token \in Tokens, email_sent \in BOOLEAN :
        procs' = [ procs EXCEPT ![p] =
                     [ c EXCEPT !.pc = "done", !.email_sent = email_sent,
                                !.result = registration_outcome(email_sent, c.user_id,
                                                                verification_token) ] ]
    /\ UNCHANGED <<users, now, call, result, effects, breaker, clock, outcome,
                 processing, notification>>

InitConcurrent ==
    /\ users = <<>>
    /\ ServiceFresh
    /\ procs = [ p \in 1..Callers |-> IdleCaller ]
    /\ breaker = NewBreaker
    /\ clock = 0
    /\ outcome = NoOutcome
    /\ processing = NoProcessing
    /\ notification = NoNotification

NextConcurrent ==
    \E p \in 1..Callers :
        \/ \E r \in ConcurrentRegistrations : begin_register(p, r[1], r[2], r[3], r[4])
        \/ check_existing(p)
        \/ save_new_user(p)
        \/ send_verification(p)

\* register_user called by several callers at once, one repository call at a time.
SpecConcurrent == InitConcurrent /\ [][NextConcurrent]_vars

\* ---------------------------------------------------------- CircuitBreaker
\* The except branch of call, opening only above the threshold.
after_failure_above_threshold(b, time) ==
    LET counted == [ b EXCEPT !.failure_count = @ + 1, !.last_failure_time = time ]
    IN IF counted.failure_count > failure_threshold
       THEN [ counted EXCEPT !.state = "OPEN" ]
       ELSE counted

\* The breaker after the except branch of call, entered at time.
after_failure(b, time) ==
    LET counted == [ b EXCEPT !.failure_count = @ + 1, !.last_failure_time = time ]
    IN IF counted.failure_count >= failure_threshold
       THEN [ counted EXCEPT !.state = "OPEN" ]
       ELSE counted

\* A success that closes the breaker with its failures still counted.
after_success_keeps_count(b) == [ b EXCEPT !.state = "CLOSED" ]

\* The breaker after the wrapped operation returned.
after_success(b) == [ b EXCEPT !.failure_count = 0, !.state = "CLOSED" ]

\* The consecutive failed calls so far; a rejected call neither adds to them
\* nor ends them.
Streak == IF outcome.op = "init" THEN 0 ELSE outcome.streak

\* if self.state == "OPEN" and the recovery timeout has not passed: the call
\* made at time is refused.
breaker_rejects(b, time) ==
    b.state = "OPEN" /\ time - b.last_failure_time < recovery_timeout

\* The breaker while the wrapped operation runs.
breaker_entered(b) ==
    IF b.state = "OPEN" THEN [ b EXCEPT !.state = "HALF_OPEN" ] ELSE b

\* The breaker after a call entered at time, whose operation, when it was
\* executed, ended at ended by raising or returning.
breaker_after(b, time, operation_fails, ended) ==
    IF breaker_rejects(b, time) THEN b
    ELSE IF operation_fails THEN after_failure(breaker_entered(b), ended)
    ELSE after_success(breaker_entered(b))

\* What is recorded of that call: the time and the breaker at entry, whether
\* the operation was executed, the state of the breaker while it ran, the time
\* at which it ended and the error code that call raised.
call_outcome(b, time, operation_fails, ended) ==
    IF breaker_rejects(b, time)
    THEN [ op |-> "call", at |-> time, before |-> b,
           executed |-> FALSE, error |-> "CIRCUIT_BREAKER_OPEN",
           during |-> b.state, ended |-> time, streak |-> Streak ]
    ELSE IF operation_fails
    THEN [ op |-> "call", at |-> time, before |-> b,
           executed |-> TRUE, error |-> "operation",
           during |-> breaker_entered(b).state, ended |-> ended,
           streak |-> Streak + 1 ]
    ELSE [ op |-> "call", at |-> time, before |-> b,
           executed |-> TRUE, error |-> None,
           during |-> breaker_entered(b).state, ended |-> ended,
           streak |-> 0 ]

\* with breaker.call(): the wrapped operation takes duration seconds and
\* raises or returns.
CircuitBreaker_call(operation_fails, duration) ==
    /\ clock + duration <= MaxClock
    /\ clock' = IF breaker_rejects(breaker, clock) THEN clock ELSE clock + duration
    /\ breaker' = breaker_after(breaker, clock, operation_fails, clock')
    /\ outcome' = call_outcome(breaker, clock, operation_fails, clock')
    /\ UNCHANGED <<users, now, call, result, effects, procs, processing, notification>>

\* time.time() moves on between calls.
ClockTick ==
    /\ clock + ClockStep <= MaxClock
    /\ clock' = clock + ClockStep
    /\ UNCHANGED <<users, now, call, result, effects, procs, breaker, outcome,
                 processing, notification>>

InitBreaker ==
    /\ users = <<>>
    /\ ServiceFresh
    /\ procs = NoProcs
    /\ breaker = NewBreaker
    /\ clock = 0
    /\ outcome = NoOutcome
    /\ processing = NoProcessing
    /\ notification = NoNotification

NextBreaker ==
    \/ \E operation_fails \in BOOLEAN, duration \in { 0, ClockStep } :
          CircuitBreaker_call(operation_fails, duration)
    \/ ClockTick

\* One CircuitBreaker, called again and again while time passes.
SpecBreaker == InitBreaker /\ [][NextBreaker]_vars

\* ----------------------------------------------------------- DataProcessor
\* What one execution of fetch_user_data can do: return the data, raise a
\* DataProcessingException with one of these error types, or raise an
\* exception that is none (a requests exception other than Timeout and
\* ConnectionError, say).
FetchResponses ==
    { "data", "VALIDATION_ERROR", "USER_NOT_FOUND", "NETWORK_ERROR", "INVALID_JSON",
      "unexpected" }

\* The user ids asked for; the empty one is refused by fetch_user_data.
UserIds == { "u1", "u2", "" }

UserIdLists == UNION { [ 1..n -> UserIds ] : n \in 0..MaxIds }

\* The error types raised as DataProcessingException or a subclass of it.
DataProcessingErrors ==
    { "VALIDATION_ERROR", "USER_NOT_FOUND", "NETWORK_ERROR", "INVALID_JSON",
      "CIRCUIT_BREAKER_OPEN" }

\* e.recoverable, as the constructors set it.
recoverable(error_type) == error_type \notin { "VALIDATION_ERROR", "USER_NOT_FOUND" }

\* fetch_user_data: the empty id is refused before the request is made.
fetch_user_data(user_id, response) ==
    IF user_id = "" THEN "VALIDATION_ERROR" ELSE response

\* One turn of the loop of fetch_user_data_with_retry after the breaker let
\* error ("data" when there was none) through: the call returns, raises, or
\* sleeps and tries again. DataProcessingException has no attribute message,
\* so the warning of the NetworkError handler raises AttributeError.
retry_step(attempt, error) ==
    IF error = "data" THEN [ kind |-> "return", error |-> None, wait |-> 0 ]
    ELSE IF error \notin DataProcessingErrors
    THEN [ kind |-> "raise", error |-> error, wait |-> 0 ]
    ELSE IF error = "NETWORK_ERROR"
    THEN IF attempt = max_retries
         THEN [ kind |-> "raise", error |-> error, wait |-> 0 ]
         ELSE [ kind |-> "raise", error |-> "AttributeError", wait |-> 0 ]
    ELSE IF ~recoverable(error) THEN [ kind |-> "raise", error |-> error, wait |-> 0 ]
    ELSE IF attempt = max_retries THEN [ kind |-> "raise", error |-> error, wait |-> 0 ]
    ELSE [ kind |-> "retry", error |-> None, wait |-> 2 ^ attempt ]

\* No fetch_user_data_with_retry call has ended yet.
NoFetch ==
    [ ended |-> "no", user_id |-> "", attempts |-> 0, last_error |-> None, raised |-> None ]

\* process_user_data(user_ids): the loop starts; an empty list returns at once.
\* attempted lists the ids given to fetch_user_data_with_retry, fetch is the
\* most recent of these calls that has ended, raised the exception that left
\* process_user_data.
process_user_data(user_ids) ==
    /\ processing.pc = "idle"
    /\ processing' =
         [ pc |-> IF user_ids = <<>> THEN "returned" ELSE "fetching",
           user_ids |-> user_ids, index |-> 1, attempt |-> 0,
           processed_count |-> 0, errors |-> <<>>, attempted |-> <<>>,
           fetch |-> NoFetch, raised |-> None,
           success |-> (user_ids = <<>>), failed_count |-> 0 ]
    /\ UNCHANGED <<users, now, call, result, effects, procs, breaker, clock, outcome,
                 notification>>

\* One attempt of fetch_user_data_with_retry for the current id, through the
\* circuit breaker, and what follows from it in the retry loop and, when the
\* retry call ends, in the loop of process_user_data.
fetch_attempt(response) ==
    LET f == processing
        user_id == f.user_ids[f.index]
        error == IF breaker_rejects(breaker, clock) THEN "CIRCUIT_BREAKER_OPEN"
                 ELSE fetch_user_data(user_id, response)
        step == retry_step(f.attempt, error)
        attempted == IF f.attempt = 0 THEN Append(f.attempted, user_id) ELSE f.attempted
        ended == [ ended |-> IF step.kind = "return" THEN "returned" ELSE "raised",
                   user_id |-> user_id, attempts |-> f.attempt + 1,
                   last_error |-> IF error = "data" THEN None ELSE error,
                   raised |-> step.error ]
        last == f.index = Len(f.user_ids)
        errors == IF step.kind = "raise"
                  THEN Append(f.errors, [ error_type |-> "UNEXPECTED_ERROR", user_id |-> user_id ])
                  ELSE f.errors
        processed_count == IF step.kind = "return" THEN f.processed_count + 1
                           ELSE f.processed_count
    IN
    /\ f.pc = "fetching"
    /\ breaker' = breaker_after(breaker, clock, error # "data", clock)
    /\ outcome' = call_outcome(breaker, clock, error # "data", clock)
    /\ clock' = clock + step.wait
    /\ processing' =
         IF step.kind = "retry"
         THEN [ f EXCEPT !.attempt = @ + 1, !.attempted = attempted ]
         ELSE IF step.kind = "raise" /\ step.error \in DataProcessingErrors
         THEN [ f EXCEPT !.pc = "raised", !.raised = "AttributeError",
                         !.attempted = attempted, !.fetch = ended ]
         ELSE [ f EXCEPT !.pc = IF last THEN "returned" ELSE "fetching",
                         !.index = @ + 1, !.attempt = 0, !.attempted = attempted,
                         !.fetch = ended, !.errors = errors,
                         !.processed_count = processed_count,
                         !.failed_count = Len(errors),
                         !.success = (last /\ Len(errors) = 0) ]
    /\ UNCHANGED <<users, now, call, result, effects, procs, notification>>

InitProcessor ==
    /\ users = <<>>
    /\ ServiceFresh
    /\ OutsideServiceIdle

NextProcessor ==
    \/ \E user_ids \in UserIdLists : process_user_data(user_ids)
    \/ \E response \in FetchResponses : fetch_attempt(response)

\* One process_user_data call of a new DataProcessor.
SpecProcessor == InitProcessor /\ [][NextProcessor]_vars

\* ----------------------------------------------------- NotificationService
\* What store_document can do: raise, or return a StorageResult that reports
\* success or failure, the failure with or without an error message.
StorageResults ==
    { [ raises |-> TRUE, success |-> FALSE, error_message |-> None ],
      [ raises |-> FALSE, success |-> TRUE, error_message |-> None ],
      [ raises |-> FALSE, success |-> FALSE, error_message |-> "storage failed" ],
      [ raises |-> FALSE, success |-> FALSE, error_message |-> None ] }

\* What send_email and send_sms can do, likewise with a DeliveryResult.
DeliveryResults ==
    { [ raises |-> TRUE, success |-> FALSE, error_message |-> None ],
      [ raises |-> FALSE, success |-> TRUE, error_message |-> None ],
      [ raises |-> FALSE, success |-> FALSE, error_message |-> "delivery failed" ],
      [ raises |-> FALSE, success |-> FALSE, error_message |-> None ] }

\* generate_receipt returns a Document or raises.
ReceiptResults == { [ raises |-> TRUE ], [ raises |-> FALSE ] }

\* get_document_url returns a URL or None, or raises.
UrlResults ==
    { [ raises |-> TRUE, url |-> None ], [ raises |-> FALSE, url |-> "url" ],
      [ raises |-> FALSE, url |-> None ] }

OrderIds == { "o1", "o2" }

NotificationResult(email_sent, sms_sent, receipt_generated, receipt_url, errors) ==
    [ email_sent |-> email_sent, sms_sent |-> sms_sent,
      receipt_generated |-> receipt_generated, receipt_url |-> receipt_url,
      errors |-> errors ]

\* The except branch: every flag false and one "Unexpected error" message.
unexpected_error_result ==
    NotificationResult(FALSE, FALSE, FALSE, None, <<"Unexpected error">>)

\* The error messages of the results that carry one, in the order given.
RECURSIVE _collect_errors(_)
_collect_errors(results) ==
    IF results = <<>> THEN <<>>
    ELSE IF Head(results).error_message # None
    THEN <<Head(results).error_message>> \o _collect_errors(Tail(results))
    ELSE _collect_errors(Tail(results))

\* A URL asked for whatever the storage reported.
url_wanted_always(storage_result) == TRUE

\* if storage_result.success: the URL of the receipt is asked for.
url_wanted(storage_result) == storage_result.success

\* The collaborators called, in order, and what send_order_confirmation
\* returns, given what each collaborator does when it is called.
order_confirmation(receipt, storage_result, url_result, email_result, sms_result) ==
    LET stored == <<"generate_receipt", "store_document">>
        looked_up == IF url_wanted(storage_result)
                     THEN Append(stored, "get_document_url") ELSE stored
        receipt_url == IF url_wanted(storage_result) THEN url_result.url ELSE None
    IN
    IF receipt.raises
    THEN [ calls |-> <<"generate_receipt">>, result |-> unexpected_error_result ]
    ELSE IF storage_result.raises
    THEN [ calls |-> stored, result |-> unexpected_error_result ]
    ELSE IF url_wanted(storage_result) /\ url_result.raises
    THEN [ calls |-> looked_up, result |-> unexpected_error_result ]
    ELSE IF email_result.raises
    THEN [ calls |-> Append(looked_up, "send_email"), result |-> unexpected_error_result ]
    ELSE IF sms_result.raises
    THEN [ calls |-> looked_up \o <<"send_email", "send_sms">>,
           result |-> unexpected_error_result ]
    ELSE [ calls |-> looked_up \o <<"send_email", "send_sms">>,
           result |-> NotificationResult(
                        email_result.success, sms_result.success,
                        storage_result.success, receipt_url,
                        _collect_errors(<<email_result, sms_result, storage_result>>)) ]

\* send_order_confirmation(order_data), with collaborators that behave as given.
send_order_confirmation(order_id, receipt, storage_result, url_result, email_result, sms_result) ==
    LET done == order_confirmation(receipt, storage_result, url_result,
                                   email_result, sms_result)
    IN
    /\ notification' =
         [ op |-> "send_order_confirmation", order_id |-> order_id,
           receipt |-> receipt, storage_result |-> storage_result,
           url_result |-> url_result, email_result |-> email_result,
           sms_result |-> sms_result,
           calls |-> done.calls, result |-> done.result, raised |-> FALSE ]
    /\ UNCHANGED <<users, now, call, result, effects, procs, breaker, clock, outcome,
                 processing>>

InitNotification ==
    /\ users = <<>>
    /\ ServiceFresh
    /\ OutsideServiceIdle

NextNotification ==
    \E order_id \in OrderIds, receipt \in ReceiptResults,
       storage_result \in StorageResults, url_result \in UrlResults,
       email_result \in DeliveryResults, sms_result \in DeliveryResults :
        send_order_confirmation(order_id, receipt, storage_result, url_result,
                                email_result, sms_result)

\* Order confirmations sent one after the other.
SpecNotification == InitNotification /\ [][NextNotification]_vars

\* ------------------------------------------------------------------ claims
\* The most recent step was a register_user call whose input passed validation.
ValidRegisterCall ==
    /\ call.op = "register_user"
    /\ _validate_registration_input(call.email, call.password,
                                    call.first_name, call.last_name) = NoError

\* C1 as stated: for every valid input and a repository without an account of
\* that e-mail, register_user succeeds with a non-empty id and token, and
\* find_by_email with that same e-mail then returns an unverified account.
C1_AsStated ==
    (ValidRegisterCall /\ find_by_email(effects.before, call.email) = 0)
    => /\ result.success
       /\ result.user_id # NoId
       /\ result.verification_token \notin { None, "" }
       /\ find_by_email(users, call.email) # 0
       /\ ~users[find_by_email(users, call.email)].email_verified

\* C1 amended: for every valid input, a repository without an account of the
\* normalized e-mail and an e-mail service that reports success, register_user
\* succeeds with a non-empty id and token, and find_by_email with the
\* normalized e-mail then returns the new account, unverified.
C1_RegisterSucceeds ==
    ( /\ ValidRegisterCall
      /\ find_by_email(effects.before, NormalizeEmail(call.email)) = 0
      /\ effects.email_sent )
    => /\ result.success
       /\ result.user_id # NoId
       /\ result.verification_token \notin { None, "" }
       /\ find_by_email(users, NormalizeEmail(call.email)) = result.user_id
       /\ ~users[result.user_id].email_verified

\* A registration with a mixed-case e-mail has succeeded.
C1_Witness ==
    /\ ValidRegisterCall
    /\ call.email = EmailAUpper
    /\ find_by_email(effects.before, NormalizeEmail(call.email)) = 0
    /\ effects.email_sent
    /\ result.success

\* C2 as stated: a register_user call whose e-mail is, after normalization,
\* the e-mail of an account registered before fails with "already exists",
\* and exactly one account has that normalized e-mail afterwards.
C2_DuplicateRejected ==
    (ValidRegisterCall /\ find_by_email(effects.before, NormalizeEmail(call.email)) # 0)
    => /\ ~result.success
       /\ result.message = MsgAlreadyExists
       /\ Cardinality(MatchesByEmail(users, NormalizeEmail(call.email))) = 1

\* The most recent step was a login_user call that supplied an e-mail and a
\* password.
LoginCall == call.op = "login_user" /\ call.email # <<>> /\ call.password # <<>>

\* The account that call addressed: its id, and the account before and after.
LoginTarget == find_by_email(effects.before, NormalizeEmail(call.email))

TargetBefore == effects.before[LoginTarget]

TargetAfter == users[LoginTarget]

LockedAt(user, time) == user.locked_until # NoDate /\ time < user.locked_until

PasswordMatches(password, user) == user.password_hash = hash_password(password)

\* C3: each wrong-password login_user against a verified, unlocked account
\* counts one more failure, the fifth in a row locks the account, and while
\* now is before locked_until every login_user with an e-mail and a password,
\* the correct password included, fails with the locked message.
C3_LockAfterFiveFailures ==
    /\ ( /\ LoginCall /\ LoginTarget # 0
         /\ TargetBefore.email_verified
         /\ ~LockedAt(TargetBefore, now)
         /\ ~PasswordMatches(call.password, TargetBefore) )
       => /\ TargetAfter.failed_login_attempts = TargetBefore.failed_login_attempts + 1
          /\ TargetBefore.failed_login_attempts = max_failed_attempts - 1
                => LockedAt(TargetAfter, now)
    /\ (LoginCall /\ LoginTarget # 0 /\ LockedAt(TargetBefore, now))
       => /\ ~result.success
          /\ result.message = MsgLocked

\* The account locked by five failures is refused the correct password.
C3_Witness ==
    /\ LoginCall /\ LoginTarget # 0
    /\ TargetBefore.failed_login_attempts = max_failed_attempts
    /\ LockedAt(TargetBefore, now)
    /\ PasswordMatches(call.password, TargetBefore)
    /\ result.message = MsgLocked

\* C4: a successful login_user on an account with failed attempts leaves the
\* stored account with no failed attempts and no lockout, and returns it.
C4_SuccessResets ==
    (LoginCall /\ LoginTarget # 0 /\ result.success
        /\ TargetBefore.failed_login_attempts > 0)
    => /\ TargetAfter.failed_login_attempts = 0
       /\ TargetAfter.locked_until = NoDate
       /\ effects.updated = 1
       /\ result.user = TargetAfter

\* A successful login has cleared an expired lockout.
C4_Witness ==
    /\ LoginCall /\ LoginTarget # 0 /\ result.success
    /\ TargetBefore.failed_login_attempts >= max_failed_attempts
    /\ TargetBefore.locked_until # NoDate
    /\ TargetAfter.locked_until = NoDate

\* The most recent step was a change_password call.
ChangeCall == call.op = "change_password"

ChangeTarget == find_by_id(effects.before, call.user_id)

\* The four rules of the password policy.
TooShort(password) == Len(password) < min_password_length

NoUpper(password) == \A i \in 1..Len(password) : password[i] \notin UpperChars

NoLower(password) == \A i \in 1..Len(password) : password[i] \notin LowerChars

NoDigit(password) == \A i \in 1..Len(password) : password[i] \notin DigitChars

ViolatesPolicy(password) ==
    TooShort(password) \/ NoUpper(password) \/ NoLower(password) \/ NoDigit(password)

\* The step from a successful change_password on a verified, unlocked
\* account to a login_user that addresses that account.
ChangeThenLogin ==
    /\ ChangeCall /\ result.success
    /\ users[call.user_id].email_verified
    /\ ~LockedAt(users[call.user_id], now)
    /\ call'.op = "login_user"
    /\ find_by_email(users, NormalizeEmail(call'.email)) = call.user_id

\* C5 as stated: after a successful change_password on a verified, unlocked
\* account the next login_user with the new password succeeds and the next
\* login_user with the old password fails.
C5_AsStated ==
    [][ ChangeThenLogin =>
          /\ call'.password = call.new_password => result'.success
          /\ call'.password = call.old_password => ~result'.success ]_vars

\* C5 amended: the login with the old password fails when the new password
\* differs from the old one.
C5_NewPasswordReplacesOld ==
    [][ ChangeThenLogin =>
          /\ call'.password = call.new_password => result'.success
          /\ (call'.password = call.old_password
                /\ call.old_password # call.new_password) => ~result'.success ]_vars

\* The old password has been refused after a change to a different password.
C5_Witness ==
    /\ LoginCall /\ LoginTarget # 0
    /\ TargetBefore.email_verified
    /\ ~LockedAt(TargetBefore, now)
    /\ TargetBefore.password_hash = hash_password(PwGood2)
    /\ call.password = PwGood
    /\ result.message = MsgInvalidCredentials

\* A change_password call that must fail: a field is missing, the id is
\* unknown, the old password does not verify or the new one breaks the policy.
ChangeMustFail ==
    \/ call.user_id = NoId \/ call.old_password = <<>> \/ call.new_password = <<>>
    \/ ChangeTarget = 0
    \/ ~PasswordMatches(call.old_password, effects.before[ChangeTarget])
    \/ ViolatesPolicy(call.new_password)

\* C6: every failing change_password call raises, leaves every stored
\* password hash as it was and writes no update; only the others return True.
C6_FailedChangeRaises ==
    ChangeCall =>
        /\ ChangeMustFail <=> result.raised
        /\ result.raised => /\ ~result.success
                            /\ users = effects.before
                            /\ effects.updated = 0
                            /\ ~effects.hashed

\* A policy-breaking new password has been refused after the old one verified.
C6_Witness ==
    /\ ChangeCall /\ ChangeTarget # 0
    /\ PasswordMatches(call.old_password, effects.before[ChangeTarget])
    /\ ViolatesPolicy(call.new_password)
    /\ result.raised
    /\ result.message = MsgPasswordLength
    /\ users = effects.before

\* The most recent step was a register_user call.
RegisterCall == call.op = "register_user"

Blank(s) == \A i \in 1..Len(s) : s[i] \in WhitespaceChars

EmailRuleViolated(email) == Blank(email) \/ ~_is_valid_email(email)

\* The message names a rule of the policy that the password breaks; the empty
\* password is told that a password is required.
NamesViolatedRule(message, password) ==
    \/ message = MsgPasswordRequired /\ password = <<>>
    \/ message = MsgPasswordLength /\ TooShort(password)
    \/ message = MsgPasswordUpper /\ NoUpper(password)
    \/ message = MsgPasswordLower /\ NoLower(password)
    \/ message = MsgPasswordDigit /\ NoDigit(password)

\* C7: register_user with a well-formed e-mail and a password that breaks a
\* rule of the policy fails with a message naming a rule that the password
\* breaks, and nothing is persisted: no save, no verification e-mail.
C7_WeakPasswordRejected ==
    (RegisterCall /\ ~EmailRuleViolated(call.email) /\ ViolatesPolicy(call.password))
    => /\ ~result.success
       /\ NamesViolatedRule(result.message, call.password)
       /\ users = effects.before
       /\ effects.saved = 0
       /\ effects.emailed = <<>>

\* A password whose only fault is the missing digit has been refused.
C7_Witness ==
    /\ RegisterCall /\ ~EmailRuleViolated(call.email)
    /\ call.password = PwNoDigit
    /\ result.message = MsgPasswordDigit
    /\ users = effects.before

\* The message of the first rule broken, in the order e-mail, password
\* length, uppercase, lowercase, digit, first name, last name; NoError when
\* none is broken.
FirstViolation(email, password, first_name, last_name) ==
    IF Blank(email) THEN MsgEmailRequired
    ELSE IF ~_is_valid_email(email) THEN MsgInvalidEmail
    ELSE IF password = <<>> THEN MsgPasswordRequired
    ELSE IF TooShort(password) THEN MsgPasswordLength
    ELSE IF NoUpper(password) THEN MsgPasswordUpper
    ELSE IF NoLower(password) THEN MsgPasswordLower
    ELSE IF NoDigit(password) THEN MsgPasswordDigit
    ELSE IF Blank(first_name) THEN MsgFirstNameRequired
    ELSE IF Blank(last_name) THEN MsgLastNameRequired
    ELSE NoError

\* C8: when register_user input breaks one or several rules the call fails
\* with the message of the first broken rule in the order e-mail syntax,
\* password length, uppercase, lowercase, digit, first name, last name.
C8_FirstViolationReported ==
    (RegisterCall
        /\ FirstViolation(call.email, call.password,
                          call.first_name, call.last_name) # NoError)
    => /\ ~result.success
       /\ result.message = FirstViolation(call.email, call.password,
                                           call.first_name, call.last_name)

\* A weak password and two blank names together: the password is reported.
C8_Witness ==
    /\ RegisterCall
    /\ ~EmailRuleViolated(call.email)
    /\ NoUpper(call.password) /\ NoDigit(call.password)
    /\ Blank(call.first_name) /\ Blank(call.last_name)
    /\ result.message = MsgPasswordUpper

\* register_user asked the e-mail service, which reported failure.
EmailSendFailed == RegisterCall /\ effects.emailed # <<>> /\ ~effects.email_sent

\* C9: when the e-mail service reports failure register_user returns a
\* failure without user id and token, and the repository holds the new account.
C9_EmailFailureKeepsAccount ==
    EmailSendFailed
    => /\ ~result.success
       /\ result.user_id = NoId
       /\ result.verification_token = None
       /\ Len(users) = Len(effects.before) + 1
       /\ SubSeq(users, 1, Len(effects.before)) = effects.before
       /\ users[Len(users)].email = NormalizeEmail(call.email)
       /\ PasswordMatches(call.password, users[Len(users)])

\* A registration has been reported as failed with its account stored.
C9_Witness ==
    /\ EmailSendFailed
    /\ result.message = MsgEmailFailed
    /\ find_by_email(effects.before, NormalizeEmail(call.email)) = 0
    /\ find_by_email(users, NormalizeEmail(call.email)) # 0

\* C10 as stated: register_user repeated with the same input after a call
\* that failed only for the e-mail service fails with "already exists" and
\* creates no second account.
C10_RetryAlreadyExists ==
    [][ (EmailSendFailed /\ call' = call)
        => (result'.message = MsgAlreadyExists /\ users' = users) ]_vars

C12_LookupIsNormalized ==
    (RegisterCall /\ effects.queried # <<>>)
    => effects.queried = <<NormalizeEmail(call.email)>>

\* The generic failure of login_user.
GenericFailure ==
    /\ ~result.success
    /\ result.user = NoUser
    /\ result.message = MsgInvalidCredentials

\* C13 as stated: login_user for an e-mail without an account returns the
\* generic "Invalid credentials" failure, and so does login_user with a wrong
\* password for an e-mail with an account, so that the result does not tell
\* whether an account exists.
C13_AsStated ==
    ( /\ LoginCall
      /\ \/ LoginTarget = 0
         \/ ~PasswordMatches(call.password, TargetBefore) )
    => GenericFailure

\* C13 amended: the wrong password gets the generic failure, and the result
\* hides the existence of the account, when the account is verified and not
\* locked.
C13_NoDisclosure ==
    ( /\ LoginCall
      /\ \/ LoginTarget = 0
         \/ /\ TargetBefore.email_verified
            /\ ~LockedAt(TargetBefore, now)
            /\ ~PasswordMatches(call.password, TargetBefore) )
    => /\ GenericFailure
       /\ LoginTarget = 0 => (users = effects.before /\ effects.updated = 0)

\* A login for an e-mail nobody registered, while other accounts exist.
C13_Witness ==
    /\ LoginCall
    /\ LoginTarget = 0
    /\ effects.before # <<>>
    /\ effects.queried = <<NormalizeEmail(call.email)>>
    /\ GenericFailure

\* C14: login_user on an account whose locked_until is in the future returns
\* the locked message for every password, correct or not, whether or not the
\* e-mail is verified, and leaves the account as it was.
C14_LockedWhateverElse ==
    (LoginCall /\ LoginTarget # 0 /\ LockedAt(TargetBefore, now))
    => /\ ~result.success
       /\ result.user = NoUser
       /\ result.message = MsgLocked
       /\ users = effects.before
       /\ effects.updated = 0

\* A locked, unverified account has been refused the correct password.
C14_Witness ==
    /\ LoginCall /\ LoginTarget # 0
    /\ LockedAt(TargetBefore, now)
    /\ ~TargetBefore.email_verified
    /\ PasswordMatches(call.password, TargetBefore)
    /\ result.message = MsgLocked

\* The fields of a User that a failed login leaves alone.
SameButCounters(after, before) ==
    \A f \in DOMAIN before \ { "failed_login_attempts", "locked_until" } :
        after[f] = before[f]

\* C15: a wrong-password login_user on a verified, unlocked account adds one to
\* failed_login_attempts, sets locked_until to now + 24 hours when the new
\* count has reached 5 and leaves it unchanged otherwise, writes the account
\* once in either case and returns the generic failure.
C15_WrongPasswordCounts ==
    ( /\ LoginCall /\ LoginTarget # 0
      /\ TargetBefore.email_verified
      /\ ~LockedAt(TargetBefore, now)
      /\ ~PasswordMatches(call.password, TargetBefore) )
    => /\ TargetAfter.failed_login_attempts = TargetBefore.failed_login_attempts + 1
       /\ TargetAfter.failed_login_attempts >= 5
            => TargetAfter.locked_until = now + 24
       /\ TargetAfter.failed_login_attempts < 5
            => TargetAfter.locked_until = TargetBefore.locked_until
       /\ SameButCounters(TargetAfter, TargetBefore)
       /\ Len(users) = Len(effects.before)
       /\ effects.updated = 1
       /\ GenericFailure

\* The fifth wrong password has set the lockout a day ahead.
C15_Witness ==
    /\ LoginCall /\ LoginTarget # 0
    /\ TargetBefore.email_verified
    /\ ~LockedAt(TargetBefore, now)
    /\ TargetBefore.failed_login_attempts = 4
    /\ TargetAfter.failed_login_attempts = 5
    /\ TargetAfter.locked_until = now + 24
    /\ effects.updated = 1

\* C16 as stated: verify_email called with the token that register_user issued
\* for an account marks that account verified and writes it to the repository.
C16_IssuedTokenVerifies ==
    [][ ( /\ RegisterCall /\ result.success
          /\ call'.op = "verify_email"
          /\ call'.token = result.verification_token )
        => /\ result'.success
           /\ users'[result.user_id].email_verified
           /\ effects'.updated = 1 ]_vars

\* The most recent register_user call met a validation failure or a conflict:
\* a missing or malformed field, or an e-mail find_by_email has an account for.
RegisterMustFail ==
    \/ FirstViolation(call.email, call.password, call.first_name, call.last_name) # NoError
    \/ MatchesByEmail(effects.before, call.email) # {}

\* The most recent login_user call met one: a missing field, an unknown
\* account, a locked or unverified account, a wrong password.
LoginMustFail ==
    \/ call.email = <<>> \/ call.password = <<>>
    \/ LoginTarget = 0
    \/ LockedAt(TargetBefore, now)
    \/ ~TargetBefore.email_verified
    \/ ~PasswordMatches(call.password, TargetBefore)

\* C17: register_user, login_user and verify_email never raise; every
\* validation failure and business-rule conflict (missing or malformed input,
\* duplicate e-mail, unknown account, locked, unverified, wrong password, empty
\* or unknown token) is returned with success = false and a message.
C17_FailuresAreReturned ==
    /\ call.op \in { "register_user", "login_user", "verify_email" }
         => /\ ~result.raised
            /\ ~result.success => result.message \notin { None, "" }
    /\ (call.op = "register_user" /\ RegisterMustFail) => ~result.success
    /\ (call.op = "login_user" /\ LoginMustFail) => ~result.success
    /\ call.op = "verify_email" => ~result.success

\* An unverified account has been turned away with a returned failure.
C17_Witness ==
    /\ LoginCall /\ LoginTarget # 0
    /\ ~LockedAt(TargetBefore, now)
    /\ ~TargetBefore.email_verified
    /\ ~result.raised
    /\ ~result.success
    /\ result.message = MsgUnverified

\* C19: every verify_email call with a non-empty token, one that the preceding
\* register_user issued included, returns the failure "Invalid or expired
\* verification token"; with the empty token it returns "Verification token
\* is required"; no call writes to the repository.
C19_NoTokenVerifies ==
    [][ call'.op = "verify_email"
        => /\ call'.token # ""
                => result' = VerificationResult(FALSE, MsgTokenInvalid)
           /\ call'.token = ""
                => result' = VerificationResult(FALSE, MsgTokenRequired)
           /\ (RegisterCall /\ result.success /\ call'.token = result.verification_token)
                => ~result'.success
           /\ users' = users
           /\ effects'.updated = 0
           /\ effects'.saved = 0 ]_vars

\* A token has been refused while an unverified account waits for one.
C19_Witness ==
    /\ call.op = "verify_email"
    /\ call.token \in Tokens
    /\ \E i \in 1..Len(users) : ~users[i].email_verified
    /\ result.message = MsgTokenInvalid
    /\ users = effects.before

\* Callers p and q have both returned from register_user calls for the same
\* e-mail in which each ran find_by_email, found nothing, and did so before
\* the other ran save_user.
Interleaved(p, q) ==
    /\ p # q
    /\ procs[p].pc = "done" /\ procs[q].pc = "done"
    /\ procs[p].email = procs[q].email
    /\ procs[p].user_id # NoId /\ procs[q].user_id # NoId
    /\ procs[p].checked_len < procs[q].user_id
    /\ procs[q].checked_len < procs[p].user_id

\* The accounts stored under the normalized form of an e-mail.
AccountsOf(email) == { i \in 1..Len(users) : users[i].email = Lower(Strip(email)) }

\* C18 as stated: when two register_user calls for the same e-mail both run
\* find_by_email before either runs save_user, both save an account and both
\* report success.
C18_AsStated ==
    \A p, q \in 1..Callers :
        Interleaved(p, q)
        => /\ Cardinality(AccountsOf(procs[p].email)) >= 2
           /\ procs[p].result.success
           /\ procs[q].result.success

\* C18 amended: both save an account, and each reports success when its
\* verification e-mail was sent and the e-mail failure otherwise.
C18_BothSave ==
    \A p, q \in 1..Callers :
        Interleaved(p, q)
        => /\ Cardinality(AccountsOf(procs[p].email)) >= 2
           /\ { procs[p].user_id, procs[q].user_id } \subseteq AccountsOf(procs[p].email)
           /\ procs[p].email_sent
                => /\ procs[p].result.success
                   /\ procs[p].result.user_id = procs[p].user_id
           /\ ~procs[p].email_sent
                => /\ ~procs[p].result.success
                   /\ procs[p].result.message = MsgEmailFailed

\* Two callers with the same, already normalized e-mail have both been told
\* that their registration succeeded, and the repository holds two accounts.
C18_Witness ==
    \E p, q \in 1..Callers :
        /\ Interleaved(p, q)
        /\ procs[p].email = EmailA
        /\ procs[p].result.success /\ procs[q].result.success
        /\ procs[p].result.user_id # procs[q].result.user_id
        /\ Cardinality(AccountsOf(EmailA)) >= 2

\* C20: after 5 consecutive failed calls the breaker is OPEN, and every call
\* made while the breaker is OPEN and less than 60 s have passed since the last
\* failure is rejected with CIRCUIT_BREAKER_OPEN, the wrapped operation not
\* executed and the breaker left as it was.
C20_OpenRejects ==
    /\ (outcome.op = "call" /\ outcome.streak >= 5) => breaker.state = "OPEN"
    /\ ( /\ outcome.op = "call"
         /\ outcome.before.state = "OPEN"
         /\ outcome.at - outcome.before.last_failure_time < 60 )
       => /\ outcome.error = "CIRCUIT_BREAKER_OPEN"
          /\ ~outcome.executed
          /\ breaker = outcome.before

\* A call has been rejected by a breaker that five failures in a row opened.
C20_Witness ==
    /\ outcome.op = "call"
    /\ outcome.streak = 5
    /\ outcome.before.state = "OPEN"
    /\ outcome.before.failure_count = 5
    /\ outcome.at - outcome.before.last_failure_time < 60
    /\ outcome.error = "CIRCUIT_BREAKER_OPEN"
    /\ ~outcome.executed

\* The most recent call came to an OPEN breaker 60 s or more after its last
\* failure.
TrialCall ==
    /\ outcome.op = "call"
    /\ outcome.before.state = "OPEN"
    /\ outcome.at - outcome.before.last_failure_time >= 60

\* C21: once 60 s have passed since the last failure the next call through an
\* OPEN breaker is admitted and runs while the breaker is HALF_OPEN; when the
\* operation succeeds the breaker is CLOSED with failure_count = 0, when it
\* fails the breaker is OPEN again with last_failure_time the time of that
\* failure.
C21_HalfOpenTrial ==
    TrialCall
    => /\ outcome.executed
       /\ outcome.during = "HALF_OPEN"
       /\ outcome.error # "CIRCUIT_BREAKER_OPEN"
       /\ outcome.error = None
            => /\ breaker.state = "CLOSED"
               /\ breaker.failure_count = 0
       /\ outcome.error = "operation"
            => /\ breaker.state = "OPEN"
               /\ breaker.last_failure_time = outcome.ended
               /\ breaker.last_failure_time > outcome.before.last_failure_time

\* A trial has succeeded and closed a breaker that five failures had opened.
C21_Witness ==
    /\ TrialCall
    /\ outcome.before.failure_count >= 5
    /\ outcome.during = "HALF_OPEN"
    /\ outcome.error = None
    /\ breaker.state = "CLOSED"
    /\ breaker.failure_count = 0

\* C22 as stated: a fetch_user_data_with_retry call ends after at most
\* max_retries + 1 = 4 attempts; when the attempt met an error that is not
\* recoverable the call raises it after the first attempt; and when it ends
\* after an attempt that met a recoverable error, that attempt was the final
\* one and the error is the one raised.
C22_AsStated ==
    (processing.pc # "idle" /\ processing.fetch.ended # "no")
    => LET fetch == processing.fetch
       IN /\ fetch.attempts <= 4
          /\ fetch.last_error \in { "VALIDATION_ERROR", "USER_NOT_FOUND" }
               => /\ fetch.attempts = 1
                  /\ fetch.raised = fetch.last_error
          /\ fetch.last_error \in { "NETWORK_ERROR", "INVALID_JSON", "CIRCUIT_BREAKER_OPEN" }
               => /\ fetch.attempts = 4
                  /\ fetch.raised = fetch.last_error

\* C23 as stated: process_user_data does not raise for a failure of one user;
\* when it has ended every id was attempted, in order, processed_count +
\* failed_count is the number of ids with one error per failed id, and success
\* is true exactly when there is no error.
C23_AsStated ==
    /\ processing.pc # "raised"
    /\ processing.pc = "returned"
         => /\ processing.attempted = processing.user_ids
            /\ processing.processed_count + processing.failed_count
                 = Len(processing.user_ids)
            /\ processing.failed_count = Len(processing.errors)
            /\ processing.success <=> processing.errors = <<>>

\* The most recent step was a send_order_confirmation call.
ConfirmationCall == notification.op = "send_order_confirmation"

\* What the collaborator of that name did, or would have done, in that call.
Behaviour(name) ==
    CASE name = "generate_receipt" -> notification.receipt
      [] name = "store_document" -> notification.storage_result
      [] name = "get_document_url" -> notification.url_result
      [] name = "send_email" -> notification.email_result
      [] name = "send_sms" -> notification.sms_result

\* The collaborators in the order of the claim, the URL only for a stored receipt.
ExpectedCalls ==
    IF ~notification.storage_result.raises /\ notification.storage_result.success
    THEN <<"generate_receipt", "store_document", "get_document_url", "send_email", "send_sms">>
    ELSE <<"generate_receipt", "store_document", "send_email", "send_sms">>

\* A collaborator that was called raised.
CalledRaised ==
    \E i \in 1..Len(notification.calls) : Behaviour(notification.calls[i]).raises

\* C24: send_order_confirmation calls generate receipt, store receipt, get
\* receipt URL, send email, send SMS in that order, the URL only when storage
\* reported success; a storage or email result that reports failure does not
\* stop the later email and SMS; the call never raises, and an exception from
\* a collaborator ends it with email_sent, sms_sent and receipt_generated false.
C24_OrderedAndContained ==
    ConfirmationCall
    => /\ ~notification.raised
       /\ Len(notification.calls) <= Len(ExpectedCalls)
       /\ notification.calls = SubSeq(ExpectedCalls, 1, Len(notification.calls))
       /\ ~CalledRaised
            => /\ notification.calls = ExpectedCalls
               /\ notification.result.email_sent = notification.email_result.success
               /\ notification.result.sms_sent = notification.sms_result.success
               /\ notification.result.receipt_generated
                    = notification.storage_result.success
       /\ CalledRaised
            => /\ Behaviour(notification.calls[Len(notification.calls)]).raises
               /\ ~notification.result.email_sent
               /\ ~notification.result.sms_sent
               /\ ~notification.result.receipt_generated

\* Storage and e-mail both reported failure and the SMS was sent all the same.
C24_Witness ==
    /\ ConfirmationCall
    /\ ~CalledRaised
    /\ ~notification.storage_result.success
    /\ ~notification.email_result.success
    /\ notification.calls = <<"generate_receipt", "store_document", "send_email", "send_sms">>
    /\ notification.result.sms_sent
    /\ ~notification.result.email_sent

\* Every account with a lockout has five failed attempts or more.
LockedImpliesFailed ==
    \A i \in 1..Len(users) :
        users[i].locked_until # NoDate => users[i].failed_login_attempts >= 5

\* A step clears the lockout of an account exactly when it clears its count.
ClearedTogether ==
    \A i \in 1..Len(users) :
        /\ (users[i].locked_until # NoDate /\ users'[i].locked_until = NoDate)
             => users'[i].failed_login_attempts = 0
        /\ (users[i].failed_login_attempts > 0 /\ users'[i].failed_login_attempts = 0)
             => users'[i].locked_until = NoDate

\* C25: in every state reached through register_user, login_user,
\* verify_email and change_password an account whose locked_until is set has
\* failed_login_attempts >= 5, and no step clears one of the two fields
\* without the other.
C25_LockNeedsFailures == []LockedImpliesFailed /\ [][ClearedTogether]_vars

\* A locked account, six failures counted, has just been locked once more.
C25_Witness ==
    /\ LoginCall /\ LoginTarget # 0
    /\ TargetBefore.locked_until # NoDate
    /\ ~LockedAt(TargetBefore, now)
    /\ TargetAfter.failed_login_attempts = 6
    /\ TargetAfter.locked_until # TargetBefore.locked_until

\* The most recent step was a wrong-password login_user on a verified account
\* whose lockout had expired and whose count stood at the threshold or above.
WrongPasswordAfterExpiry ==
    /\ LoginCall /\ LoginTarget # 0
    /\ TargetBefore.email_verified
    /\ TargetBefore.locked_until # NoDate
    /\ now >= TargetBefore.locked_until
    /\ TargetBefore.failed_login_attempts >= 5
    /\ ~PasswordMatches(call.password, TargetBefore)

\* No step lowers a count of failed attempts but a successful login_user,
\* which sets it to 0; the passing of time changes no account.
OnlySuccessResets ==
    /\ \A i \in 1..Len(users) :
          users'[i].failed_login_attempts < users[i].failed_login_attempts
          => /\ call'.op = "login_user"
             /\ result'.success
             /\ users'[i].failed_login_attempts = 0
    /\ now' # now => users' = users

\* C26: the expiry of a lockout leaves failed_login_attempts as it is; the
\* first wrong-password login_user after it locks the account again until 24
\* hours from then; only a successful login returns the count to 0.
C26_ExpiryKeepsCount ==
    /\ [](WrongPasswordAfterExpiry
            => /\ TargetAfter.failed_login_attempts
                    = TargetBefore.failed_login_attempts + 1
               /\ TargetAfter.locked_until = now + 24)
    /\ [][OnlySuccessResets]_vars

\* The first wrong password after the lockout expired has locked the account
\* for another day.
C26_Witness ==
    /\ WrongPasswordAfterExpiry
    /\ TargetBefore.failed_login_attempts = 5
    /\ LockedAt(TargetAfter, now)
    /\ TargetAfter.locked_until = TargetBefore.locked_until + 24
    /\ result.message = MsgInvalidCredentials

\* C27: a login_user call that addresses an account which is locked at that
\* time, or whose e-mail is not verified, leaves the account as it was,
\* whatever the password: failed_login_attempts and locked_until are unchanged
\* and nothing is written to the repository.
C27_LockedOrUnverifiedUntouched ==
    ( /\ call.op = "login_user" /\ call.email # <<>>
      /\ LoginTarget # 0
      /\ LockedAt(TargetBefore, now) \/ ~TargetBefore.email_verified )
    => /\ TargetAfter.failed_login_attempts = TargetBefore.failed_login_attempts
       /\ TargetAfter.locked_until = TargetBefore.locked_until
       /\ users = effects.before
       /\ effects.updated = 0
       /\ effects.saved = 0
       /\ ~result.success

\* A wrong password during a lockout has neither been counted nor extended it.
C27_Witness ==
    /\ LoginCall /\ LoginTarget # 0
    /\ LockedAt(TargetBefore, now)
    /\ TargetBefore.email_verified
    /\ ~PasswordMatches(call.password, TargetBefore)
    /\ TargetAfter = TargetBefore
    /\ effects.updated = 0

\* The lockout fields of every account are what they were before the call.
LockoutStateKept ==
    /\ Len(users) = Len(effects.before)
    /\ \A i \in 1..Len(users) :
          /\ users[i].failed_login_attempts = effects.before[i].failed_login_attempts
          /\ users[i].locked_until = effects.before[i].locked_until
          /\ users[i].email_verified = effects.before[i].email_verified

\* C28: change_password neither reads nor writes the lockout state: no call
\* changes failed_login_attempts or locked_until, a call with a wrong old
\* password is refused as such and counts nothing, and a call with the right
\* old password and a valid new one succeeds on a locked or unverified
\* account as on any other.
C28_ChangeIgnoresLockout ==
    ChangeCall
    => /\ LockoutStateKept
       /\ ( /\ call.old_password # <<>> /\ call.new_password # <<>>
            /\ ChangeTarget # 0
            /\ ~PasswordMatches(call.old_password, effects.before[ChangeTarget]) )
          => /\ result.raised
             /\ result.message = MsgOldPasswordWrong
             /\ users = effects.before
       /\ ( /\ call.old_password # <<>> /\ call.new_password # <<>>
            /\ ChangeTarget # 0
            /\ PasswordMatches(call.old_password, effects.before[ChangeTarget])
            /\ ~ViolatesPolicy(call.new_password) )
          => /\ ~result.raised
             /\ result.success
             /\ PasswordMatches(call.new_password, users[ChangeTarget])

\* The password of a locked account has been changed.
C28_Witness ==
    /\ ChangeCall /\ ChangeTarget # 0
    /\ LockedAt(effects.before[ChangeTarget], now)
    /\ result.success
    /\ LockedAt(users[ChangeTarget], now)
    /\ users[ChangeTarget].password_hash # effects.before[ChangeTarget].password_hash

====
